---------------------------- MODULE Spec2Model ----------------------------
(***************************************************************************)
(* The Picture plugin model of djangocms_picture/models.py: one Picture    *)
(* instance, its field values, the three methods clean, get_size and       *)
(* get_link, and the life of the instance between the edit form and the    *)
(* stored row (edit, clean, save, deletion of a referenced asset, page or  *)
(* thumbnail option, display).                                             *)
(***************************************************************************)
EXTENDS Integers, Sequences, FiniteSets, TLC

VARIABLES
    self,   \* the field values of the Picture instance
    phase,  \* "unsaved" | "cleaned" | "saved" | "deleted"
    ret     \* what the last method call on the current field values returned

vars == <<self, phase, ret>>

---------------------------------------------------------------------------
(* Bounds of the model *)

\* explicit width and height range over None and 0..MaxDim
MaxDim == 1
\* ThumbnailOption rows 1..NumPresets
NumPresets == 2
\* cms pages 1..NumPages
NumPages == 1

---------------------------------------------------------------------------
(* Python values *)

\* None, for the nullable fields (primary keys are >= 1, sizes are >= 0)
None == -1

\* the value of a blank CharField / URLField
Blank == ""

Assets == {1}
Pages == 1..NumPages
Presets == 1..NumPresets
Urls == {"http://example.com/x"}
Dims == 0..MaxDim

\* truth value of None / an int (0 is false) / a model instance (always true)
TruthyInt(v) == v # None /\ v # 0
TruthyRef(v) == v # None
\* truth value of a str: the empty string is false
TruthyStr(s) == s # Blank

\* a returned str, and the returned bool False
PyStr(s) == [type |-> "str", val |-> s]
PyFalse == [type |-> "bool", val |-> "False"]
PyNone == [type |-> "NoneType", val |-> "None"]

---------------------------------------------------------------------------
(* External collaborators *)

\* filer.ThumbnailOption rows: preset 1 is the spec's example
\* {width 300, height 200, crop false, upscale true}; further rows alternate.
ThumbnailOption(id) ==
    [width   |-> 300 * id,
     height  |-> 200 * id,
     crop    |-> (id % 2 = 0),
     upscale |-> (id % 2 = 1)]

\* cms Page.get_absolute_url()
get_absolute_url(page) ==
    CASE page = 1 -> "/about/"
      [] page = 2 -> "/contact/"
      [] OTHER    -> "/news/"

---------------------------------------------------------------------------
(* The fields of Picture *)

\* the distinct values of PICTURE_ALIGNMENT, and blank
PICTURE_ALIGNMENT == {"left", "right"}

Configs ==
    [picture               : Assets \cup {None},
     external_picture      : Urls \cup {Blank},
     width                 : Dims \cup {None},
     height                : Dims \cup {None},
     alignment             : PICTURE_ALIGNMENT \cup {Blank},
     link_url              : Urls \cup {Blank},
     link_page             : Pages \cup {None},
     use_automatic_scaling : BOOLEAN,
     use_no_cropping       : BOOLEAN,
     use_crop              : BOOLEAN,
     use_upscale           : BOOLEAN,
     use_thumbnail         : Presets \cup {None}]

\* Picture() with every field at its declared default
Defaults ==
    [picture               |-> None,
     external_picture      |-> Blank,
     width                 |-> None,
     height                |-> None,
     alignment             |-> Blank,
     link_url              |-> Blank,
     link_page             |-> None,
     use_automatic_scaling |-> TRUE,
     use_no_cropping       |-> FALSE,
     use_crop              |-> FALSE,
     use_upscale           |-> FALSE,
     use_thumbnail         |-> None]

---------------------------------------------------------------------------
(* Picture.get_size *)

\* get_size with the preset applied first and the explicit fields after it
get_size_ExplicitWins(s) ==
    LET thumb    == TruthyRef(s.use_thumbnail)
        width1   == IF thumb THEN ThumbnailOption(s.use_thumbnail).width ELSE 0
        height1  == IF thumb THEN ThumbnailOption(s.use_thumbnail).height ELSE 0
        crop1    == IF thumb THEN ThumbnailOption(s.use_thumbnail).crop ELSE FALSE
        upscale1 == IF thumb THEN ThumbnailOption(s.use_thumbnail).upscale ELSE FALSE
        width2   == IF TruthyInt(s.width) THEN s.width ELSE width1
        height2  == IF TruthyInt(s.height) THEN s.height ELSE height1
        crop2    == IF s.use_crop THEN s.use_crop ELSE crop1
        upscale2 == IF s.use_upscale THEN s.use_upscale ELSE upscale1
    IN  [size |-> <<width2, height2>>, crop |-> crop2, upscale |-> upscale2]

\* get_size that honours use_no_cropping by dropping crop and upscale
get_size_NoCroppingHonoured(s) ==
    LET thumb == TruthyRef(s.use_thumbnail)
        T     == ThumbnailOption(s.use_thumbnail)
        w     == IF thumb THEN T.width
                 ELSE IF TruthyInt(s.width) THEN s.width ELSE 0
        h     == IF thumb THEN T.height
                 ELSE IF TruthyInt(s.height) THEN s.height ELSE 0
        c     == IF thumb THEN T.crop ELSE s.use_crop
        u     == IF thumb THEN T.upscale ELSE s.use_upscale
    IN  [size    |-> <<w, h>>,
         crop    |-> c /\ ~s.use_no_cropping,
         upscale |-> u /\ ~s.use_no_cropping]

get_size(s) ==
    LET width0   == 0
        height0  == 0
        crop0    == FALSE
        upscale0 == FALSE
        width1   == IF TruthyInt(s.width) THEN s.width ELSE width0
        height1  == IF TruthyInt(s.height) THEN s.height ELSE height0
        crop1    == IF s.use_crop THEN s.use_crop ELSE crop0
        upscale1 == IF s.use_upscale THEN s.use_upscale ELSE upscale0
        thumb    == TruthyRef(s.use_thumbnail)
        width2   == IF thumb THEN ThumbnailOption(s.use_thumbnail).width ELSE width1
        height2  == IF thumb THEN ThumbnailOption(s.use_thumbnail).height ELSE height1
        crop2    == IF thumb THEN ThumbnailOption(s.use_thumbnail).crop ELSE crop1
        upscale2 == IF thumb THEN ThumbnailOption(s.use_thumbnail).upscale ELSE upscale1
    IN  [size |-> <<width2, height2>>, crop |-> crop2, upscale |-> upscale2]

(* Picture.get_link *)

\* get_link that falls through to an empty string instead of False
get_link_EmptyString(s) ==
    IF TruthyStr(s.link_url) THEN PyStr(s.link_url)
    ELSE IF TruthyRef(s.link_page) THEN PyStr(get_absolute_url(s.link_page))
    ELSE PyStr(Blank)

get_link(s) ==
    IF TruthyStr(s.link_url) THEN PyStr(s.link_url)
    ELSE IF TruthyRef(s.link_page) THEN PyStr(get_absolute_url(s.link_page))
    ELSE PyFalse

(* Picture.clean *)

\* the ValidationError messages; NoError is a normal return
ConflictingLinkError ==
    "You have defined an external and internal link. Only one option is allowed."
MissingImageSourceError ==
    "You need to add either a picture or an external link."
ConflictingCroppingOptionsError ==
    "The cropping selection is not valid. You cannot combine certain options."
NoError == "None"

\* the condition without its third line
CroppingConflict_NoAutoUpscale(s) ==
    \/ s.use_automatic_scaling /\ s.use_no_cropping
    \/ s.use_automatic_scaling /\ s.use_crop
    \/ s.use_automatic_scaling /\ TruthyRef(s.use_thumbnail)
    \/ s.use_no_cropping /\ s.use_crop
    \/ s.use_no_cropping /\ s.use_upscale
    \/ s.use_no_cropping /\ TruthyRef(s.use_thumbnail)
    \/ TruthyRef(s.use_thumbnail) /\ s.use_crop
    \/ TruthyRef(s.use_thumbnail) /\ s.use_upscale

\* the condition of the third if of clean
CroppingConflict(s) ==
    \/ s.use_automatic_scaling /\ s.use_no_cropping
    \/ s.use_automatic_scaling /\ s.use_crop
    \/ s.use_automatic_scaling /\ s.use_upscale
    \/ s.use_automatic_scaling /\ TruthyRef(s.use_thumbnail)
    \/ s.use_no_cropping /\ s.use_crop
    \/ s.use_no_cropping /\ s.use_upscale
    \/ s.use_no_cropping /\ TruthyRef(s.use_thumbnail)
    \/ TruthyRef(s.use_thumbnail) /\ s.use_crop
    \/ TruthyRef(s.use_thumbnail) /\ s.use_upscale

\* clean with the cropping check moved before the image check
clean_CroppingBeforeImage(s) ==
    IF TruthyStr(s.link_url) /\ TruthyRef(s.link_page)
    THEN ConflictingLinkError
    ELSE IF CroppingConflict(s)
    THEN ConflictingCroppingOptionsError
    ELSE IF ~TruthyRef(s.picture) /\ ~TruthyStr(s.external_picture)
    THEN MissingImageSourceError
    ELSE NoError

\* clean with the link check moved to the end
clean_LinkLast(s) ==
    IF ~TruthyRef(s.picture) /\ ~TruthyStr(s.external_picture)
    THEN MissingImageSourceError
    ELSE IF CroppingConflict(s)
    THEN ConflictingCroppingOptionsError
    ELSE IF TruthyStr(s.link_url) /\ TruthyRef(s.link_page)
    THEN ConflictingLinkError
    ELSE NoError

\* clean without the image check
clean_NoImageCheck(s) ==
    IF TruthyStr(s.link_url) /\ TruthyRef(s.link_page)
    THEN ConflictingLinkError
    ELSE IF CroppingConflict(s)
    THEN ConflictingCroppingOptionsError
    ELSE NoError

clean(s) ==
    IF TruthyStr(s.link_url) /\ TruthyRef(s.link_page)
    THEN ConflictingLinkError
    ELSE IF ~TruthyRef(s.picture) /\ ~TruthyStr(s.external_picture)
    THEN MissingImageSourceError
    ELSE IF CroppingConflict(s)
    THEN ConflictingCroppingOptionsError
    ELSE NoError

---------------------------------------------------------------------------
(* Return values *)

NoDirective == [size |-> <<0, 0>>, crop |-> FALSE, upscale |-> FALSE]

NoRet ==
    [op |-> "none", error |-> NoError, options |-> NoDirective, link |-> PyNone]
RetClean(e) ==
    [op |-> "clean", error |-> e, options |-> NoDirective, link |-> PyNone]
RetSize(o) ==
    [op |-> "get_size", error |-> NoError, options |-> o, link |-> PyNone]
RetLink(l) ==
    [op |-> "get_link", error |-> NoError, options |-> NoDirective, link |-> l]

---------------------------------------------------------------------------
(* The state machine *)

Init ==
    /\ self = Defaults
    /\ phase = "unsaved"
    /\ ret = NoRet

\* the edit form assigns a field of the instance; the values are not yet
\* validated and not those of a stored row
Assign(new) ==
    /\ phase # "deleted"
    /\ new # self
    /\ self' = new
    /\ phase' = "unsaved"
    /\ ret' = NoRet

set_picture ==
    \E v \in Assets \cup {None} : Assign([self EXCEPT !.picture = v])
set_external_picture ==
    \E v \in Urls \cup {Blank} : Assign([self EXCEPT !.external_picture = v])
set_width ==
    \E v \in Dims \cup {None} : Assign([self EXCEPT !.width = v])
set_height ==
    \E v \in Dims \cup {None} : Assign([self EXCEPT !.height = v])
set_alignment ==
    \E v \in PICTURE_ALIGNMENT \cup {Blank} : Assign([self EXCEPT !.alignment = v])
set_link_url ==
    \E v \in Urls \cup {Blank} : Assign([self EXCEPT !.link_url = v])
set_link_page ==
    \E v \in Pages \cup {None} : Assign([self EXCEPT !.link_page = v])
set_use_automatic_scaling ==
    \E v \in BOOLEAN : Assign([self EXCEPT !.use_automatic_scaling = v])
set_use_no_cropping ==
    \E v \in BOOLEAN : Assign([self EXCEPT !.use_no_cropping = v])
set_use_crop ==
    \E v \in BOOLEAN : Assign([self EXCEPT !.use_crop = v])
set_use_upscale ==
    \E v \in BOOLEAN : Assign([self EXCEPT !.use_upscale = v])
set_use_thumbnail ==
    \E v \in Presets \cup {None} : Assign([self EXCEPT !.use_thumbnail = v])

\* a clean that switches automatic scaling off when the cropping options
\* conflict, and reports the error all the same
call_clean_Correcting ==
    /\ phase # "deleted"
    /\ ret' = RetClean(clean(self))
    /\ phase' = IF phase = "saved" THEN "saved"
                ELSE IF clean(self) = NoError THEN "cleaned" ELSE "unsaved"
    /\ self' = IF clean(self) = ConflictingCroppingOptionsError
               THEN [self EXCEPT !.use_automatic_scaling = FALSE]
               ELSE self

\* a call of self.clean(): it raises or returns, and assigns nothing
call_clean ==
    /\ phase # "deleted"
    /\ ret' = RetClean(clean(self))
    /\ phase' = IF phase = "saved" THEN "saved"
                ELSE IF clean(self) = NoError THEN "cleaned" ELSE "unsaved"
    /\ UNCHANGED self

\* a call of self.get_size(), by the template that displays the picture
call_get_size ==
    /\ phase # "deleted"
    /\ ret' = RetSize(get_size(self))
    /\ UNCHANGED <<self, phase>>

\* a call of self.get_link()
call_get_link ==
    /\ phase # "deleted"
    /\ ret' = RetLink(get_link(self))
    /\ UNCHANGED <<self, phase>>

\* the form saves the instance once clean has accepted its field values
save ==
    /\ phase = "cleaned"
    /\ phase' = "saved"
    /\ ret' = NoRet
    /\ UNCHANGED self

\* the filer image a stored row points to is deleted: on_delete=SET_NULL
delete_picture ==
    /\ phase = "saved"
    /\ TruthyRef(self.picture)
    /\ self' = [self EXCEPT !.picture = None]
    /\ ret' = NoRet
    /\ UNCHANGED phase

\* the page a stored row links to is deleted: on_delete=SET_NULL
delete_link_page ==
    /\ phase = "saved"
    /\ TruthyRef(self.link_page)
    /\ self' = [self EXCEPT !.link_page = None]
    /\ ret' = NoRet
    /\ UNCHANGED phase

\* the ThumbnailOption a stored row uses is deleted: the ForeignKey names no
\* on_delete, so the row is deleted with it
delete_use_thumbnail ==
    /\ phase = "saved"
    /\ TruthyRef(self.use_thumbnail)
    /\ phase' = "deleted"
    /\ ret' = NoRet
    /\ UNCHANGED self

\* a new plugin instance is created in place of a deleted one
create ==
    /\ phase = "deleted"
    /\ self' = Defaults
    /\ phase' = "unsaved"
    /\ ret' = NoRet

Next ==
    \/ set_picture
    \/ set_external_picture
    \/ set_width
    \/ set_height
    \/ set_alignment
    \/ set_link_url
    \/ set_link_page
    \/ set_use_automatic_scaling
    \/ set_use_no_cropping
    \/ set_use_crop
    \/ set_use_upscale
    \/ set_use_thumbnail
    \/ call_clean
    \/ call_get_size
    \/ call_get_link
    \/ save
    \/ delete_picture
    \/ delete_link_page
    \/ delete_use_thumbnail
    \/ create

Spec == Init /\ [][Next]_vars

TypeOK ==
    /\ self \in Configs
    /\ phase \in {"unsaved", "cleaned", "saved", "deleted"}
    /\ ret.op \in {"none", "clean", "get_size", "get_link"}

---------------------------------------------------------------------------
(* The invariants of a valid configuration, as the specification states    *)
(* them                                                                    *)

HasPicture(s) == s.picture # None
HasExternal(s) == s.external_picture # Blank
HasThumbnail(s) == s.use_thumbnail # None

\* invariant 1, at least one image source
HasImageSource(s) == HasPicture(s) \/ HasExternal(s)
\* invariant 2, at most one link
BothLinks(s) == s.link_url # Blank /\ s.link_page # None
\* invariant 3, the forbidden pairs
ForbiddenPair(s) ==
    \/ s.use_automatic_scaling
         /\ (s.use_no_cropping \/ s.use_crop \/ s.use_upscale \/ HasThumbnail(s))
    \/ s.use_no_cropping /\ (s.use_crop \/ s.use_upscale \/ HasThumbnail(s))
    \/ HasThumbnail(s) /\ (s.use_crop \/ s.use_upscale)

OrZero(v) == IF v = None THEN 0 ELSE v

---------------------------------------------------------------------------
(* C1 *)

\* C1 (as stated): whenever clean has run on field values with neither a
\* picture nor an external picture, whatever the link fields, it raised the
\* missing-image-source error.
C1_MissingImageAlways ==
    (ret.op = "clean" /\ ~HasImageSource(self))
        => ret.error = MissingImageSourceError

\* C1 (amended): whenever clean has run on field values with neither a
\* picture nor an external picture and with link_url and link_page not both
\* set, it raised the missing-image-source error.
C1_MissingImageUnlessBothLinks ==
    (ret.op = "clean" /\ ~HasImageSource(self) /\ ~BothLinks(self))
        => ret.error = MissingImageSourceError

\* clean has rejected, for the missing image, field values whose cropping
\* options conflict as well
C1_Witness ==
    /\ ret.op = "clean"
    /\ ~HasImageSource(self)
    /\ ~BothLinks(self)
    /\ ForbiddenPair(self)
    /\ ret.error = MissingImageSourceError

(* C2 *)

AutomaticScalingPlusOther(s) ==
    s.use_automatic_scaling
        /\ (s.use_no_cropping \/ s.use_crop \/ s.use_upscale \/ HasThumbnail(s))

\* C2 (as stated): whenever clean has run on field values with
\* use_automatic_scaling and one of use_no_cropping, use_crop, use_upscale or
\* a thumbnail preset, whatever the image and link fields, it raised the
\* conflicting-cropping-options error.
C2_CroppingConflictAlways ==
    (ret.op = "clean" /\ AutomaticScalingPlusOther(self))
        => ret.error = ConflictingCroppingOptionsError

\* C2 (amended): the same, for field values that have an image source and do
\* not have both link fields set.
C2_CroppingConflictAfterLinkAndImage ==
    (ret.op = "clean" /\ AutomaticScalingPlusOther(self)
        /\ HasImageSource(self) /\ ~BothLinks(self))
        => ret.error = ConflictingCroppingOptionsError

\* clean has rejected automatic scaling combined with upscale alone
C2_Witness ==
    /\ ret.op = "clean"
    /\ self.use_automatic_scaling /\ self.use_upscale
    /\ ~self.use_no_cropping /\ ~self.use_crop /\ ~HasThumbnail(self)
    /\ HasImageSource(self) /\ ~BothLinks(self)
    /\ ret.error = ConflictingCroppingOptionsError

(* C3 *)

\* C3: whenever clean has run on field values with both link_url and
\* link_page set, whatever the other fields, it raised the conflicting-link
\* error.
C3_ConflictingLinkFirst ==
    (ret.op = "clean" /\ BothLinks(self)) => ret.error = ConflictingLinkError

\* clean has reported the link conflict for field values that also lack an
\* image and combine forbidden cropping options
C3_Witness ==
    /\ ret.op = "clean"
    /\ BothLinks(self)
    /\ ~HasImageSource(self)
    /\ ForbiddenPair(self)
    /\ ret.error = ConflictingLinkError

(* C4 *)

\* C4: whenever clean has accepted the field values, exactly one of picture
\* and external_picture is present.
C4_ExactlyOneImageSource ==
    (ret.op = "clean" /\ ret.error = NoError)
        => (HasPicture(self) # HasExternal(self))

(* C5 *)

\* C5: whenever clean has run on field values with an image source and at
\* most one link, it raised the conflicting-cropping-options error if a
\* forbidden pair holds and returned normally otherwise.
C5_CroppingVerdict ==
    (ret.op = "clean" /\ HasImageSource(self) /\ ~BothLinks(self))
        => ret.error = IF ForbiddenPair(self)
                       THEN ConflictingCroppingOptionsError
                       ELSE NoError

\* clean has accepted use_crop together with use_upscale, nothing else set
C5_Witness ==
    /\ ret.op = "clean"
    /\ self.use_crop /\ self.use_upscale
    /\ ~self.use_automatic_scaling /\ ~self.use_no_cropping
    /\ ~HasThumbnail(self)
    /\ HasImageSource(self) /\ ~BothLinks(self)
    /\ ret.error = NoError

(* C6 *)

\* C6: whenever get_size has run, its result is the preset's width, height,
\* crop and upscale if a preset is set, and otherwise (width or 0, height or
\* 0), use_crop and use_upscale.
C6_LayeredOverride ==
    ret.op = "get_size" =>
        IF HasThumbnail(self)
        THEN /\ ret.options.size =
                    <<ThumbnailOption(self.use_thumbnail).width,
                      ThumbnailOption(self.use_thumbnail).height>>
             /\ ret.options.crop = ThumbnailOption(self.use_thumbnail).crop
             /\ ret.options.upscale = ThumbnailOption(self.use_thumbnail).upscale
        ELSE /\ ret.options.size = <<OrZero(self.width), OrZero(self.height)>>
             /\ ret.options.crop = self.use_crop
             /\ ret.options.upscale = self.use_upscale

\* get_size has let the preset override an explicit width and height and a
\* set use_crop
C6_Witness ==
    /\ ret.op = "get_size"
    /\ HasThumbnail(self)
    /\ self.width \in 1..MaxDim /\ self.height \in 1..MaxDim
    /\ self.use_crop
    /\ ~ThumbnailOption(self.use_thumbnail).crop
    /\ ret.options.crop = FALSE
    /\ ret.options.size[1] # self.width

(* C7 *)

\* C7: whenever get_link has run, it returned link_url if link_url is set,
\* else the absolute url of link_page if link_page is set, else False, which
\* is no str (so not the empty string) and no error.
C7_LinkPrecedence ==
    ret.op = "get_link" =>
        /\ ret.error = NoError
        /\ IF self.link_url # Blank
           THEN ret.link = PyStr(self.link_url)
           ELSE IF self.link_page # None
           THEN ret.link = PyStr(get_absolute_url(self.link_page))
           ELSE ret.link.type # "str" /\ ret.link = PyFalse

\* get_link has run with neither link field set
C7_Witness ==
    /\ ret.op = "get_link"
    /\ self.link_url = Blank /\ self.link_page = None
    /\ ret.link = PyFalse

(* C8 *)

\* the field values s with the two intent flags and the image, link and
\* alignment fields replaced
Variant(s, a, n, p, e, u, l, al) ==
    [s EXCEPT !.use_automatic_scaling = a, !.use_no_cropping = n,
              !.picture = p, !.external_picture = e,
              !.link_url = u, !.link_page = l, !.alignment = al]

\* C8: whenever get_size has run, every config that differs from the current
\* one only in use_automatic_scaling, use_no_cropping and the image, link and
\* alignment fields resolves to the directive that was returned.
C8_IntentFlagsNotResolved ==
    ret.op = "get_size" =>
        \A a, n \in BOOLEAN :
        \A p \in Assets \cup {None}, e \in Urls \cup {Blank} :
        \A u \in Urls \cup {Blank}, l \in Pages \cup {None} :
        \A al \in PICTURE_ALIGNMENT \cup {Blank} :
            get_size(Variant(self, a, n, p, e, u, l, al)) = ret.options

\* get_size has run on field values that clean accepts and that clean
\* rejects once use_no_cropping alone is switched on
C8_Witness ==
    /\ ret.op = "get_size"
    /\ clean(self) = NoError
    /\ ~self.use_no_cropping
    /\ clean([self EXCEPT !.use_no_cropping = TRUE])
           = ConflictingCroppingOptionsError
    /\ get_size([self EXCEPT !.use_no_cropping = TRUE]) = ret.options

(* C9 *)

\* C9 (as stated): every stored config has an image source, at most one link
\* and no forbidden cropping pair.
C9_StoredAlwaysValid ==
    phase = "saved" =>
        HasImageSource(self) /\ ~BothLinks(self) /\ ~ForbiddenPair(self)

\* C9 (amended): every step that ends with a stored config ends with one that
\* has at most one link and no forbidden cropping pair, and that has an image
\* source unless the config was stored before the step and either lacked one
\* already or lost its picture to the deletion of the asset (SET_NULL).
C9_StoredValidUpToAssetDeletion ==
    [][phase' = "saved" =>
          /\ ~BothLinks(self')
          /\ ~ForbiddenPair(self')
          /\ \/ HasImageSource(self')
             \/ /\ phase = "saved"
                /\ \/ ~HasImageSource(self)
                   \/ /\ HasPicture(self)
                      /\ self' = [self EXCEPT !.picture = None]]_vars

\* a stored config that lost its picture has been resolved for display
C9_Witness ==
    /\ phase = "saved"
    /\ ret.op = "get_size"
    /\ ~HasImageSource(self)
    /\ ~BothLinks(self) /\ ~ForbiddenPair(self)

(* C10 *)

\* C10: every step that ends with a method's return value leaves the fields
\* as they were, the value is the one the current fields determine, and a
\* repeated call of the same method returns the same value; a failed clean
\* in particular changes no field.
C10_MethodsAssignNothing ==
    [][ret'.op # "none" =>
          /\ self' = self
          /\ ret'.op = "clean" => ret'.error = clean(self')
          /\ ret'.op = "get_size" => ret'.options = get_size(self')
          /\ ret'.op = "get_link" => ret'.link = get_link(self')
          /\ ret.op = ret'.op => ret' = ret]_vars

\* clean has rejected conflicting cropping options, and they still conflict
C10_Witness ==
    /\ ret.op = "clean"
    /\ ret.error = ConflictingCroppingOptionsError
    /\ ForbiddenPair(self)
    /\ self.use_automatic_scaling

=============================================================================
